---------------------------- MODULE Spec2Model ----------------------------
(***************************************************************************)
(* A model of the poisoned-drinks solvers (src/poison): the experiment and *)
(* its oracle, the solver base class, the two-level / deep-dive /         *)
(* early-stop solving variants with their scrutiny and split strategies,  *)
(* and the memoized Bernoulli statistics calculator.                      *)
(*                                                                         *)
(* Python floats are modelled as exact rationals <<numerator, denominator>>*)
(* with a positive denominator, kept in lowest terms.  The probabilities  *)
(* of PSet are dyadic, so they are exactly representable as doubles.      *)
(***************************************************************************)
EXTENDS Integers, Sequences, FiniteSets, TLC

\* ----------------------------------------------------------------- bounds
\* Largest number of glasses of an experiment in Spec.
MaxN == 4
\* Largest group size asked of the statistics calculator in SpecStats.
MaxStatN == 4
\* Most queries made of one statistics calculator in SpecStats.
MaxCalls == 3

\* ------------------------------------------------------- rational numbers
Abs(a) == IF a < 0 THEN -a ELSE a

RECURSIVE GCD(_, _)
GCD(a, b) == IF b = 0 THEN a ELSE GCD(b, a % b)

\* The rational n/d (d # 0) in lowest terms with a positive denominator.
Rat(n, d) ==
    LET g == GCD(Abs(n), Abs(d))
        s == IF d < 0 THEN -1 ELSE 1
    IN  <<(s * n) \div g, (s * d) \div g>>

RInt(k) == <<k, 1>>

RAdd(a, b) ==
    LET g == GCD(a[2], b[2])
    IN  Rat(a[1] * (b[2] \div g) + b[1] * (a[2] \div g), (a[2] \div g) * b[2])

RNeg(a) == <<-a[1], a[2]>>

RSub(a, b) == RAdd(a, RNeg(b))

RMul(a, b) ==
    LET g1 == GCD(Abs(a[1]), b[2])
        g2 == GCD(Abs(b[1]), a[2])
    IN  Rat((a[1] \div g1) * (b[1] \div g2), (a[2] \div g2) * (b[2] \div g1))

\* a / b for b # 0.
RDiv(a, b) == RMul(a, Rat(b[2], b[1]))

RLess(a, b) == a[1] * b[2] < b[1] * a[2]

RLeq(a, b) == a[1] * b[2] <= b[1] * a[2]

RECURSIVE RPow(_, _)
RPow(a, k) == IF k = 0 THEN RInt(1) ELSE RMul(a, RPow(a, k - 1))

\* The contamination probabilities of the valid experiments of the model.
PSet == {<<1, 4>>, <<1, 2>>, <<3, 4>>}

\* ------------------------------------------- BernoulliTrialCalculator (pure)
\* 1 - (1 - p) ** n
prob_at_least_one_poison(p, n) == RSub(RInt(1), RPow(RSub(RInt(1), p), n))

\* ((1-p) ** x) * prob_at_least_one_poison(n - x)
prob_at_least_one_poison_but_not_in_first_x(p, n, x) ==
    RMul(RPow(RSub(RInt(1), p), x), prob_at_least_one_poison(p, n - x))

\* The array over x in 0..n, divided elementwise by prob_at_least_one_poison(n).
prob_no_poison_in_first_x_given_at_least_one_poison_array(p, n) ==
    [x \in 0..n |->
        RDiv(prob_at_least_one_poison_but_not_in_first_x(p, n, x),
             prob_at_least_one_poison(p, n))]

\* A round-robin cost with the two weights exchanged.
round_robin_cost_swapped(c, n) ==
    RAdd(RMul(c[n - 1], RInt(n)), RMul(RSub(RInt(1), c[n - 1]), RInt(n - 1)))

\* Strategy 0 of get_poisoned_group_size_statistics (line 64): round robin, and
\* maybe get lucky to not test the last.
round_robin_cost(c, n) ==
    RAdd(RMul(c[n - 1], RInt(n - 1)), RMul(RSub(RInt(1), c[n - 1]), RInt(n)))

\* The list built by get_poisoned_group_size_statistics for size n: entry 0 is
\* the round-robin cost, entry x in 1..n-1 the cost of splitting on x.  memo
\* holds the (tests, split) statistics of the sizes below n.
expected_number_of_tests_on_split(p, n, memo) ==
    LET c == prob_no_poison_in_first_x_given_at_least_one_poison_array(p, n)
        one == RInt(1)
    IN  [x \in 0..(n - 1) |->
            IF x = 0
            THEN round_robin_cost(c, n)
            ELSE RAdd(one,
                  RAdd(RMul(c[x], memo[n - x].tests),
                       RMul(RSub(one, c[x]),
                            RAdd(memo[x].tests,
                                 RAdd(one,
                                      RAdd(RMul(RSub(one, prob_at_least_one_poison(p, n - x)), RInt(0)),
                                           RMul(prob_at_least_one_poison(p, n - x),
                                                memo[n - x].tests)))))))]

\* np.argmin over the cost column: the first index holding the minimum.
ArgMin(costs) ==
    CHOOSE x \in DOMAIN costs :
        /\ \A y \in DOMAIN costs : RLeq(costs[x], costs[y])
        /\ \A y \in DOMAIN costs : y < x => RLess(costs[x], costs[y])

\* The body of get_poisoned_group_size_statistics: the optimal (tests, split).
optimal_strategy(p, n, memo) ==
    LET costs == expected_number_of_tests_on_split(p, n, memo)
        x == ArgMin(costs)
    IN  [tests |-> costs[x], split |-> x]

\* The statistics of the sizes 1..n, each computed from the smaller ones.
RECURSIVE StatisticsUpTo(_, _)
StatisticsUpTo(p, n) ==
    IF n = 0 THEN <<>>
    ELSE LET memo == StatisticsUpTo(p, n - 1)
         IN  Append(memo, optimal_strategy(p, n, memo))

\* The list built by get_group_size_statistics for n glasses: per top-level
\* group size, the expected number of tests.
expected_num_tests(p, n, memo) ==
    [group_size \in 1..n |->
        RAdd(RMul(RInt(n \div group_size),
                  RAdd(RInt(1), RMul(prob_at_least_one_poison(p, group_size),
                                     memo[group_size].tests))),
             IF n % group_size = 0
             THEN RInt(0)
             ELSE RAdd(RInt(1), RMul(prob_at_least_one_poison(p, n % group_size),
                                     memo[n % group_size].tests)))]

\* The value get_group_size_statistics returns: (tests, group size).
minimal_expected_num_tests(p, n, memo) ==
    [tests |-> expected_num_tests(p, n, memo)[ArgMin(expected_num_tests(p, n, memo))],
     split |-> ArgMin(expected_num_tests(p, n, memo))]

\* get_poisoned_group_size_split_point(n), as a solver sees it.
get_poisoned_group_size_split_point(p, n) == StatisticsUpTo(p, n)[n].split

\* ------------------------------------------------------------------ state
VARIABLES
    \* PoisonedDrinksExperiment
    expState,           \* "none", "constructed", or "error" (the constructor raised)
    num_glasses,
    poison_chance,
    glasses,            \* __glasses: function 0..num_glasses-1 -> {0, 1}
    queries,            \* every check_poison call since the load: <<lo, hi, answer>>
    \* the solver object
    solverType,         \* "TwoLevel", "DeepDive" or "EarlyStop"
    top_group_strategy, \* the batch size top_group_strategy(n, p) returns
    poisoned_group_strategy,
    poisoned_group_split_strategy,
    loaded,             \* __experiment is not None
    num_tests,          \* __num_tests
    solution,           \* __solution
    \* the position of solve()
    pc,                 \* "idle", "top", "call", "done" or "raised"
    top_level_group_size,
    i_start,
    i_end,
    stack,              \* the active scrutiny calls, innermost last
    ret,                \* the value the last returned call returned (-1: None)
    baseline,           \* num_tests of the finished deep-dive run (-1: none)
    \* one BernoulliTrialCalculator
    calc_p,
    stats_cache,        \* lru_cache of get_poisoned_group_size_statistics
    max_n_searched,
    poisoned_group_size_statistics,
    evaluations,        \* per size: how often the recurrence body ran
    returned,           \* the results handed out so far: [op, n, value]
    asked,              \* per size: the queries for its statistics
    calls               \* queries made of the calculator

expVars == <<expState, num_glasses, poison_chance, glasses>>
configVars == <<solverType, top_group_strategy, poisoned_group_strategy,
                poisoned_group_split_strategy>>
loopVars == <<top_level_group_size, i_start, i_end>>
calcVars == <<calc_p, stats_cache, max_n_searched, poisoned_group_size_statistics,
              evaluations, returned, asked, calls>>
vars == <<expVars, queries, configVars, loaded, num_tests, solution, pc, loopVars,
          stack, ret, baseline, calcVars>>

None == -1

\* The solver classes and the strategies each can be built with.
SolverConfigs ==
    [type : {"TwoLevel"}, scrutiny : {"round_robin", "round_robin_plus", "plugin"},
     split : {"none"}]
    \cup [type : {"DeepDive"}, scrutiny : {"deep_dive"},
          split : {"middle", "minimum_expected_tests_complete"}]
    \cup [type : {"EarlyStop"}, scrutiny : {"early_stop_deep_dive"},
          split : {"middle", "minimum_expected_tests_complete"}]

\* PoisonedDrinksSolver.__init__ and the subclasses' __init__.
SolverConstructed(cfg, g) ==
    /\ solverType = cfg.type
    /\ poisoned_group_strategy = cfg.scrutiny
    /\ poisoned_group_split_strategy = cfg.split
    /\ top_group_strategy = g
    /\ loaded = FALSE
    /\ num_tests = 0
    /\ solution = <<>>
    /\ pc = "idle"
    /\ top_level_group_size = 0
    /\ i_start = 0
    /\ i_end = 0
    /\ stack = <<>>
    /\ ret = None
    /\ baseline = None
    /\ queries = <<>>

\* BernoulliTrialCalculator.__init__
CalculatorConstructed(p) ==
    /\ calc_p = p
    /\ stats_cache = <<>>
    /\ max_n_searched = 0
    /\ poisoned_group_size_statistics = <<>>
    /\ evaluations = [n \in 1..MaxStatN |-> 0]
    /\ returned = {}
    /\ asked = [n \in 1..MaxStatN |-> 0]
    /\ calls = 0

\* A constructed experiment with a valid configuration and a constructed solver.
Init ==
    /\ expState = "constructed"
    /\ num_glasses \in 1..MaxN
    /\ poison_chance \in PSet
    /\ glasses \in [0..(num_glasses - 1) -> {0, 1}]
    /\ \E cfg \in SolverConfigs, g \in 1..num_glasses : SolverConstructed(cfg, g)
    /\ CalculatorConstructed(poison_chance)

\* ------------------------------------------------------- the experiment
\* PoisonedDrinksExperiment.check_poison on range(lo, hi): np.any.
check_poison(lo, hi) == \E i \in lo..(hi - 1) : glasses[i] = 1

\* A check_solution that only looks for clean glasses marked as poisoned.
check_solution_marks_only(sol) == \A i \in DOMAIN glasses : sol[i] = 1 => glasses[i] = 1

\* PoisonedDrinksExperiment.check_solution: np.all(glasses == solution).
check_solution(sol) == \A i \in DOMAIN glasses : glasses[i] = sol[i]

\* --------------------------------------------------- PoisonedDrinksSolver
\* load_experiment
LoadExperiment ==
    /\ expState = "constructed"
    /\ pc \in {"idle", "done", "raised"}
    /\ loaded' = TRUE
    /\ num_tests' = 0
    /\ solution' = [i \in 0..(num_glasses - 1) |-> 0]
    /\ queries' = <<>>
    /\ pc' = "idle"
    /\ UNCHANGED <<expVars, configVars, loopVars, stack, ret, baseline, calcVars>>

\* A check_for_poison that asks the experiment without counting the test.
check_for_poison_uncounted(lo, hi) ==
    /\ num_tests' = num_tests
    /\ queries' = Append(queries, <<lo, hi, check_poison(lo, hi)>>)

\* check_for_poison on range(lo, hi): counts the test, then asks the experiment.
check_for_poison(lo, hi) ==
    /\ num_tests' = num_tests + 1
    /\ queries' = Append(queries, <<lo, hi, check_poison(lo, hi)>>)

NoTest == UNCHANGED <<num_tests, queries>>

\* mark_as_poison
mark_as_poison(i) == solution' = [solution EXCEPT ![i] = 1]

Min(a, b) == IF a < b THEN a ELSE b

\* The frame of a call of scrutiny function fn on [s, e); at is the number of
\* oracle queries made before the call.
Frame(fn, s, e, at) ==
    [fn |-> fn, i_start |-> s, i_end |-> e, stage |-> "enter", i_split |-> 0,
     i |-> s, found |-> FALSE, at |-> at]

Top == stack[Len(stack)]
Push(f) == Append(stack, f)
Pop == SubSeq(stack, 1, Len(stack) - 1)
\* The stack with its innermost frame replaced by f.
Set(f) == [stack EXCEPT ![Len(stack)] = f]
Running(fn) == pc = "call" /\ stack # <<>> /\ Top.fn = fn

\* solve(): the call of _solve_core, up to top_group_strategy(n=self.n, p=self.p).
SolveStart ==
    /\ pc = "idle"
    /\ loaded
    /\ top_level_group_size' = top_group_strategy
    /\ i_start' = 0
    /\ i_end' = 0
    /\ pc' = "top"
    /\ UNCHANGED <<expVars, queries, configVars, loaded, num_tests, solution, stack,
                   ret, baseline, calcVars>>

\* The function a positive batch is handed to.
ScrutinyFunction ==
    IF solverType = "EarlyStop" THEN "early_stop_deep_dive" ELSE poisoned_group_strategy

\* An early-stop loop that moves on by one glass after a negative batch.
NextStartAfterNegative_slide(e) ==
    IF solverType = "EarlyStop" THEN i_start + 1 ELSE i_start + top_level_group_size

\* Where the next batch starts after a negative batch test.
NextStartAfterNegative(e) ==
    IF solverType = "EarlyStop" THEN e ELSE i_start + top_level_group_size

\* One iteration of the top-level loop of _solve_core: the batch test.
TopTest ==
    /\ pc = "top"
    /\ i_start < num_glasses
    /\ LET e == Min(i_start + top_level_group_size, num_glasses)
       IN  /\ i_end' = e
           /\ check_for_poison(i_start, e)
           /\ IF check_poison(i_start, e)
              THEN /\ stack' = <<Frame(ScrutinyFunction, i_start, e, Len(queries) + 1)>>
                   /\ pc' = "call"
                   /\ i_start' = i_start
              ELSE /\ stack' = stack
                   /\ pc' = "top"
                   /\ i_start' = NextStartAfterNegative(e)
    /\ UNCHANGED <<expVars, configVars, loaded, solution, top_level_group_size, ret,
                   baseline, calcVars>>

\* An early-stop loop that moves on to the end of the batch after its scrutiny.
NextStartAfterScrutiny_batch_end == i_start + top_level_group_size

\* Where the next batch starts once the scrutiny of a positive batch returned.
NextStartAfterScrutiny ==
    IF solverType = "EarlyStop" THEN ret + 1 ELSE i_start + top_level_group_size

\* The scrutiny of the batch returned to _solve_core.
ScrutinyReturn ==
    /\ pc = "call"
    /\ stack = <<>>
    /\ i_start' = NextStartAfterScrutiny
    /\ i_end' = IF solverType = "EarlyStop" THEN ret + 1 ELSE i_end
    /\ pc' = "top"
    /\ UNCHANGED <<expVars, queries, configVars, loaded, num_tests, solution,
                   top_level_group_size, stack, ret, baseline, calcVars>>

\* _solve_core returned: solve() checks the solution and raises on a mismatch.
SolveFinish ==
    /\ pc = "top"
    /\ i_start >= num_glasses
    /\ pc' = IF check_solution(solution) THEN "done" ELSE "raised"
    /\ UNCHANGED <<expVars, queries, configVars, loaded, num_tests, solution, loopVars,
                   stack, ret, baseline, calcVars>>

\* ------------------------------------------- PoisonedGroupSplitStrategies
\* A split at the start of the group, which leaves the left half empty.
middle_low(s, e) == s

\* middle
middle(s, e) == (s + e) \div 2

\* StatsCalculatorFactory: one calculator per probability, here by the split
\* point it gives for each group size a solver of the model can ask about.
SplitPointTable ==
    [p \in PSet |-> [n \in 1..MaxN |-> get_poisoned_group_size_split_point(p, n)]]

\* minimum_expected_tests_complete: None when the calculator offers no split.
minimum_expected_tests_complete(s, e, p) ==
    LET split_delta == SplitPointTable[p][e - s]
    IN  IF split_delta = 0 THEN None ELSE s + split_delta

\* solver.poisoned_group_split_strategy(i_start, i_end, p=solver.p)
split_strategy(s, e) ==
    IF poisoned_group_split_strategy = "middle"
    THEN middle(s, e)
    ELSE minimum_expected_tests_complete(s, e, poison_chance)

\* "not i_split": None and 0 are both falsy.
NotSplit(i_split) == i_split = None \/ i_split = 0

\* ------------------------------------------------ PoisonedGroupStrategies
\* round_robin: a group of one is marked untested, else every glass is tested.
RoundRobin ==
    /\ Running("round_robin")
    /\ LET f == Top
       IN  IF f.stage = "enter"
           THEN /\ NoTest
                /\ IF f.i_end - f.i_start = 1
                   THEN mark_as_poison(f.i_start) /\ stack' = Pop
                   ELSE solution' = solution /\ stack' = Set([f EXCEPT !.stage = "loop"])
           ELSE IF f.i < f.i_end
           THEN /\ check_for_poison(f.i, f.i + 1)
                /\ IF check_poison(f.i, f.i + 1)
                   THEN mark_as_poison(f.i)
                   ELSE solution' = solution
                /\ stack' = Set([f EXCEPT !.i = f.i + 1])
           ELSE NoTest /\ solution' = solution /\ stack' = Pop
    /\ UNCHANGED <<expVars, configVars, loaded, pc, loopVars, ret, baseline, calcVars>>

\* A round_robin_plus that marks the last glass untested whatever it found before.
inferred_last_always(found_poison, i, e) == i = e - 1

\* A round_robin_plus that marks any glass untested while it has found nothing.
inferred_last_any(found_poison, i, e) == ~found_poison

\* Whether round_robin_plus marks glass i without testing it.
inferred_last(found_poison, i, e) == ~found_poison /\ i = e - 1

\* round_robin_plus: one iteration of its loop, or its return.
RoundRobinPlus ==
    /\ Running("round_robin_plus")
    /\ LET f == Top
       IN  IF f.i < f.i_end
           THEN IF inferred_last(f.found, f.i, f.i_end)
                THEN /\ NoTest
                     /\ mark_as_poison(f.i)
                     /\ stack' = Set([f EXCEPT !.i = f.i + 1, !.found = TRUE])
                ELSE /\ check_for_poison(f.i, f.i + 1)
                     /\ IF check_poison(f.i, f.i + 1)
                        THEN /\ mark_as_poison(f.i)
                             /\ stack' = Set([f EXCEPT !.i = f.i + 1, !.found = TRUE])
                        ELSE /\ solution' = solution
                             /\ stack' = Set([f EXCEPT !.i = f.i + 1])
           ELSE NoTest /\ solution' = solution /\ stack' = Pop
    /\ UNCHANGED <<expVars, configVars, loaded, pc, loopVars, ret, baseline, calcVars>>

\* A scrutiny strategy plugged into SolverTwoLevels that is not of the catalog:
\* it tests each glass of the group and marks it or not, whatever the answer.
Plugin ==
    /\ Running("plugin")
    /\ LET f == Top
       IN  IF f.i < f.i_end
           THEN \E mark \in BOOLEAN :
                    /\ check_for_poison(f.i, f.i + 1)
                    /\ IF mark THEN mark_as_poison(f.i) ELSE solution' = solution
                    /\ stack' = Set([f EXCEPT !.i = f.i + 1])
           ELSE NoTest /\ solution' = solution /\ stack' = Pop
    /\ UNCHANGED <<expVars, configVars, loaded, pc, loopVars, ret, baseline, calcVars>>

\* ----------------------------------------------------------- SolverDeepDive
\* A right half that is never tested before it is scrutinized.
skip_right_test_always(found_poison_left) == TRUE

\* A right half that is always tested first, the short-circuit lost.
skip_right_test_never(found_poison_left) == FALSE

\* Line 71: the right half is scrutinized untested when the left half was clean.
skip_right_test(found_poison_left) == ~found_poison_left

\* _deep_dive_poisoned_group up to the test of the left half and the call on it.
DeepDiveEnter ==
    /\ Running("deep_dive")
    /\ Top.stage = "enter"
    /\ LET f == Top
       IN  IF f.i_end - f.i_start = 1
           THEN NoTest /\ mark_as_poison(f.i_start) /\ stack' = Pop
           ELSE IF f.i_end - f.i_start > 1
           THEN \E i_split \in {split_strategy(f.i_start, f.i_end)} :
                IF NotSplit(i_split)
                THEN /\ NoTest
                     /\ solution' = solution
                     /\ stack' = Append(Set([f EXCEPT !.stage = "return"]),
                                        Frame("round_robin_plus", f.i_start, f.i_end, Len(queries)))
                ELSE /\ check_for_poison(f.i_start, i_split)
                     /\ solution' = solution
                     /\ LET found_poison_left == check_poison(f.i_start, i_split)
                            g == [f EXCEPT !.stage = "right", !.i_split = i_split,
                                           !.found = found_poison_left]
                        IN  stack' = IF found_poison_left
                                     THEN Append(Set(g), Frame("deep_dive", f.i_start, i_split,
                                                          Len(queries) + 1))
                                     ELSE Set(g)
           ELSE NoTest /\ solution' = solution /\ stack' = Pop
    /\ UNCHANGED <<expVars, configVars, loaded, pc, loopVars, ret, baseline, calcVars>>

\* _deep_dive_poisoned_group, lines 70-72: the right half.
DeepDiveRight ==
    /\ Running("deep_dive")
    /\ Top.stage = "right"
    /\ LET f == Top
           caller == Set([f EXCEPT !.stage = "return"])
       IN  IF skip_right_test(f.found)
           THEN /\ NoTest
                /\ stack' = Append(caller, Frame("deep_dive", f.i_split, f.i_end,
                                                  Len(queries)))
           ELSE /\ check_for_poison(f.i_split, f.i_end)
                /\ stack' = IF check_poison(f.i_split, f.i_end)
                             THEN Append(caller, Frame("deep_dive", f.i_split, f.i_end,
                                                       Len(queries) + 1))
                             ELSE Pop
    /\ UNCHANGED <<expVars, configVars, loaded, solution, pc, loopVars, ret, baseline,
                   calcVars>>

\* A call whose callee returned and that has nothing left to do returns, handing
\* on the callee's return value.
Return ==
    /\ pc = "call"
    /\ stack # <<>>
    /\ Top.stage = "return"
    /\ stack' = Pop
    /\ UNCHANGED <<expVars, queries, configVars, loaded, num_tests, solution, pc,
                   loopVars, ret, baseline, calcVars>>

\* ---------------------------------------------------------- SolverEarlyStop
\* _early_stop_deep_dive_poisoned_group
EarlyStopDeepDive ==
    /\ Running("early_stop_deep_dive")
    /\ Top.stage = "enter"
    /\ LET f == Top
       IN  IF f.i_end - f.i_start = 1
           THEN /\ NoTest
                /\ mark_as_poison(f.i_start)
                /\ ret' = f.i_start
                /\ stack' = Pop
           ELSE IF f.i_end - f.i_start > 1
           THEN /\ solution' = solution
                /\ ret' = ret
                /\ \E i_split \in {split_strategy(f.i_start, f.i_end)} :
                   LET g == [f EXCEPT !.stage = "return", !.i_split = i_split]
                   IN
                   IF NotSplit(i_split)
                   THEN /\ NoTest
                        /\ stack' = Append(Set(g), Frame("early_stop_round_robin_plus",
                                                         f.i_start, f.i_end,
                                                         Len(queries)))
                   ELSE /\ check_for_poison(f.i_start, i_split)
                        /\ stack' =
                             IF check_poison(f.i_start, i_split)
                             THEN Append(Set(g), Frame("early_stop_deep_dive",
                                                       f.i_start, i_split,
                                                       Len(queries) + 1))
                             ELSE Append(Set(g), Frame("early_stop_deep_dive",
                                                       i_split, f.i_end,
                                                       Len(queries) + 1))
           ELSE NoTest /\ solution' = solution /\ ret' = None /\ stack' = Pop
    /\ UNCHANGED <<expVars, configVars, loaded, pc, loopVars, baseline, calcVars>>

\* _early_stop_round_robin_plus: one iteration of its loop, or its return.
EarlyStopRoundRobinPlus ==
    /\ Running("early_stop_round_robin_plus")
    /\ LET f == Top
       IN  IF f.i < f.i_end
           THEN IF inferred_last(FALSE, f.i, f.i_end)
                THEN /\ NoTest
                     /\ mark_as_poison(f.i)
                     /\ ret' = f.i
                     /\ stack' = Pop
                ELSE /\ check_for_poison(f.i, f.i + 1)
                     /\ IF check_poison(f.i, f.i + 1)
                        THEN mark_as_poison(f.i) /\ ret' = f.i /\ stack' = Pop
                        ELSE /\ solution' = solution
                             /\ ret' = ret
                             /\ stack' = Set([f EXCEPT !.i = f.i + 1])
           ELSE NoTest /\ solution' = solution /\ ret' = None /\ stack' = Pop
    /\ UNCHANGED <<expVars, configVars, loaded, pc, loopVars, baseline, calcVars>>

\* SolverEarlyStop.__init__: once a deep-dive solver has solved the experiment, an
\* early-stop solver is built with the same top-level and split strategies; the
\* deep-dive run's test count is kept for comparison.
CompareWithEarlyStop ==
    /\ pc = "done"
    /\ solverType = "DeepDive"
    /\ baseline' = num_tests
    /\ solverType' = "EarlyStop"
    /\ poisoned_group_strategy' = "early_stop_deep_dive"
    /\ loaded' = FALSE
    /\ num_tests' = 0
    /\ solution' = <<>>
    /\ queries' = <<>>
    /\ pc' = "idle"
    /\ ret' = None
    /\ UNCHANGED <<expVars, top_group_strategy, poisoned_group_split_strategy, loopVars,
                   stack, calcVars>>

\* The steps of a SolverTwoLevels built with a scrutiny strategy.
NextTwoLevel ==
    \/ LoadExperiment
    \/ SolveStart
    \/ TopTest
    \/ ScrutinyReturn
    \/ SolveFinish
    \/ RoundRobin
    \/ RoundRobinPlus
    \/ Plugin

Next ==
    \/ NextTwoLevel
    \/ DeepDiveEnter
    \/ DeepDiveRight
    \/ Return
    \/ EarlyStopDeepDive
    \/ EarlyStopRoundRobinPlus
    \/ CompareWithEarlyStop

Spec == Init /\ [][Next]_vars

\* ------------------------------------------------- the n = 8 scenario
ScenarioGlasses == <<0, 0, 1, 0, 0, 0, 1, 0>>

\* The experiment of the scenario and a two-level solver built for it.
InitScenario ==
    /\ expState = "constructed"
    /\ num_glasses = Len(ScenarioGlasses)
    /\ poison_chance = <<1, 2>>
    /\ glasses = [i \in 0..(Len(ScenarioGlasses) - 1) |-> ScenarioGlasses[i + 1]]
    /\ \E cfg \in {c \in SolverConfigs : c.type = "TwoLevel"}, g \in 1..Len(ScenarioGlasses) :
           SolverConstructed(cfg, g)
    /\ CalculatorConstructed(poison_chance)

SpecScenario == InitScenario /\ [][NextTwoLevel]_vars

\* ------------------------------------- construction of the experiment
\* The configurations tried: probabilities below, in and above (0, 1).
ConfigP == {<<-1, 4>>, <<0, 1>>, <<1, 4>>, <<1, 2>>, <<3, 4>>, <<1, 1>>, <<5, 4>>}

\* np.random.random() lies in [0, 1): "random <= p" can be true only if p >= 0
\* and false only if p < 1.
Drawable(p, gl) ==
    \A i \in DOMAIN gl : IF gl[i] = 1 THEN RLeq(RInt(0), p) ELSE RLess(p, RInt(1))

\* No experiment yet; a solver is constructed.
InitConstruct ==
    /\ expState = "none"
    /\ num_glasses = 0
    /\ poison_chance = RInt(0)
    /\ glasses = <<>>
    /\ \E cfg \in SolverConfigs : SolverConstructed(cfg, 1)
    /\ CalculatorConstructed(<<1, 2>>)

\* PoisonedDrinksExperiment.__init__: nothing is validated; only numpy refuses
\* to build an array of negative length.
Construct ==
    /\ expState = "none"
    /\ \E n \in (-1)..MaxN, p \in ConfigP :
           IF n < 0
           THEN /\ expState' = "error"
                /\ UNCHANGED <<num_glasses, poison_chance, glasses>>
           ELSE /\ expState' = "constructed"
                /\ num_glasses' = n
                /\ poison_chance' = p
                /\ glasses' \in {gl \in [0..(n - 1) -> {0, 1}] : Drawable(p, gl)}
    /\ UNCHANGED <<queries, configVars, loaded, num_tests, solution, pc, loopVars, stack,
                   ret, baseline, calcVars>>

NextConstruct == Construct \/ LoadExperiment

SpecConstruct == InitConstruct /\ [][NextConstruct]_vars

\* ------------------------------- BernoulliTrialCalculator (memoization)
\* A cache that never answers.
cache_hit_never(cache, n) == FALSE

\* The lru_cache of get_poisoned_group_size_statistics: is size n cached?
cache_hit(cache, n) == n \in DOMAIN cache

\* The calculator as a value.
Calculator ==
    [cache |-> stats_cache, evals |-> evaluations,
     dict |-> poisoned_group_size_statistics, max_n |-> max_n_searched]

\* The recurrence body ran for size n: its result is cached and counted.
Evaluated(p, c, n) ==
    [c EXCEPT !.cache = (n :> optimal_strategy(p, n, c.cache)) @@ c.cache,
              !.evals = [c.evals EXCEPT ![n] = @ + 1]]

\* get_poisoned_group_size_statistics(n) through its lru_cache: the calculator
\* after the call.  On a miss the body asks for the sizes n-x and x, for x in 1..n-1.
RECURSIVE cached_statistics(_, _, _)
RECURSIVE body_calls(_, _, _, _)
cached_statistics(p, c, n) ==
    IF cache_hit(c.cache, n) THEN c ELSE Evaluated(p, body_calls(p, c, n, 1), n)

\* The calls of the body for the split points x..n-1, in the order the list
\* comprehension makes them.  Two hits leave the calculator as it is.
body_calls(p, c, n, x) ==
    IF x >= n THEN c
    ELSE IF cache_hit(c.cache, n - x) /\ cache_hit(c.cache, x)
         THEN body_calls(p, c, n, x + 1)
         ELSE body_calls(p, cached_statistics(p, cached_statistics(p, c, n - x), x),
                         n, x + 1)

StoreInDict(c, i) == [c EXCEPT !.dict = (i :> c.cache[i]) @@ c.dict]

\* The loop of compute_poisoned_group_size_statistics: the calculator after the
\* iterations from..i.
RECURSIVE compute_loop(_, _, _, _)
compute_loop(p, c, from, i) ==
    IF i < from THEN c
    ELSE StoreInDict(cached_statistics(p, compute_loop(p, c, from, i - 1), i), i)

\* compute_poisoned_group_size_statistics(n)
compute_poisoned_group_size_statistics(p, c, n) ==
    IF n > c.max_n
    THEN [compute_loop(p, c, c.max_n + 1, n - 1) EXCEPT !.max_n = n]
    ELSE c

\* get_poisoned_group_size_split_point(n) and
\* get_poisoned_group_size_expected_number_of_tests(n): the calculator after it.
computed_statistics(p, c, n) ==
    cached_statistics(p, compute_poisoned_group_size_statistics(p, c, n), n)

\* get_group_size_statistics(n): the calls made for each group size, and for
\* the size n % group_size of the last group when that is not 0.
RECURSIVE group_size_calls(_, _, _, _)
group_size_calls(p, c, n, group_size) ==
    IF group_size = 0 THEN c
    ELSE IF n % group_size = 0
         THEN computed_statistics(p, group_size_calls(p, c, n, group_size - 1), group_size)
         ELSE computed_statistics(p,
                  computed_statistics(p, group_size_calls(p, c, n, group_size - 1),
                                      group_size),
                  n % group_size)

SetCalculator(c) ==
    /\ stats_cache' = c.cache
    /\ evaluations' = c.evals
    /\ poisoned_group_size_statistics' = c.dict
    /\ max_n_searched' = c.max_n

solverVars == <<expVars, queries, configVars, loaded, num_tests, solution, pc, loopVars,
                stack, ret, baseline>>

\* A query for the statistics of size n was answered from calculator c.
Answered(c, n) ==
    /\ SetCalculator(c)
    /\ returned' = returned \cup {[op |-> "poisoned", n |-> n, value |-> c.cache[n]]}
    /\ asked' = [asked EXCEPT ![n] = @ + 1]
    /\ calls' = calls + 1
    /\ UNCHANGED <<calc_p, solverVars>>

\* A direct call of get_poisoned_group_size_statistics(n).
GetPoisonedGroupSizeStatistics ==
    /\ calls < MaxCalls
    /\ \E n \in 1..MaxStatN :
           \E c \in {cached_statistics(calc_p, Calculator, n)} : Answered(c, n)

\* get_poisoned_group_size_split_point(n)
GetPoisonedGroupSizeSplitPoint ==
    /\ calls < MaxCalls
    /\ \E n \in 1..MaxStatN :
           \E c \in {computed_statistics(calc_p, Calculator, n)} : Answered(c, n)

\* get_poisoned_group_size_expected_number_of_tests(n)
GetPoisonedGroupSizeExpectedNumberOfTests ==
    /\ calls < MaxCalls
    /\ \E n \in 1..MaxStatN :
           \E c \in {computed_statistics(calc_p, Calculator, n)} : Answered(c, n)

\* get_group_size_statistics(n)
GetGroupSizeStatistics ==
    /\ calls < MaxCalls
    /\ \E n \in 1..MaxStatN :
           \E computed \in {compute_poisoned_group_size_statistics(calc_p, Calculator, n)} :
           \E c \in {group_size_calls(calc_p, computed, n, n)} :
               /\ SetCalculator(c)
               /\ returned' = returned \cup
                      {[op |-> "top", n |-> n,
                        value |-> minimal_expected_num_tests(calc_p, n, c.cache)]}
               /\ calls' = calls + 1
               /\ UNCHANGED <<calc_p, asked, solverVars>>

\* A calculator for one of the probabilities, and no query made yet.
InitStats ==
    /\ expState = "none"
    /\ num_glasses = 0
    /\ poison_chance \in PSet
    /\ glasses = <<>>
    /\ SolverConstructed([type |-> "TwoLevel", scrutiny |-> "round_robin",
                          split |-> "none"], 1)
    /\ CalculatorConstructed(poison_chance)

NextStats ==
    \/ GetPoisonedGroupSizeStatistics
    \/ GetPoisonedGroupSizeSplitPoint
    \/ GetPoisonedGroupSizeExpectedNumberOfTests
    \/ GetGroupSizeStatistics

SpecStats == InitStats /\ [][NextStats]_vars

\* The single-threaded solver keeps running until solve() returns or raises.
FairSpec == Spec /\ WF_vars(Next)

\* ----------------------------------------------------------------- claims
Finished == pc \in {"done", "raised"}
Catalog == poisoned_group_strategy # "plugin"
Poisoned == {i \in DOMAIN glasses : glasses[i] = 1}
Marked == {i \in DOMAIN solution : solution[i] = 1}
Range(q) == <<q[1], q[2]>>
SplitBased(f) == f.fn \in {"deep_dive", "early_stop_deep_dive"}

\* C1: with a catalog strategy, every solving variant ends solve() without
\* raising and with the solution equal to the ground truth.
SolveCorrect == (Finished /\ Catalog) => (pc = "done" /\ solution = glasses)

SolveCorrectWitness ==
    /\ pc = "done"
    /\ solverType = "EarlyStop"
    /\ poisoned_group_split_strategy = "minimum_expected_tests_complete"
    /\ solution = glasses
    /\ Cardinality(Poisoned) >= 2
    /\ Poisoned # DOMAIN glasses

\* C2 as stated: on the same experiment, with the same batch size and split
\* strategy, the early-stop solver never uses more tests than the deep-dive one.
EarlyStopNoMoreTests ==
    (pc = "done" /\ solverType = "EarlyStop" /\ baseline # None) => num_tests <= baseline

\* C2 amended: it holds when at most one glass of the experiment is poisoned.
EarlyStopNoMoreTestsOnePoisoned ==
    (pc = "done" /\ solverType = "EarlyStop" /\ baseline # None
        /\ Cardinality(Poisoned) <= 1)
    => num_tests <= baseline

EarlyStopFewerTestsWitness ==
    /\ pc = "done"
    /\ solverType = "EarlyStop"
    /\ baseline # None
    /\ Cardinality(Poisoned) = 1
    /\ num_tests < baseline

\* C3: solve() raises exactly when the solution it is left with differs from
\* the ground truth.
SolveRaisesOnMismatch ==
    /\ pc = "raised" => solution # glasses
    /\ pc = "done" => solution = glasses

SolveRaisesWitness ==
    /\ pc = "raised"
    /\ poisoned_group_strategy = "plugin"
    /\ Marked \ Poisoned # {}
    /\ Poisoned \ Marked # {}

\* C5: the test count is the number of oracle queries made since the load.
TestCountIsQueryCount == loaded => num_tests = Len(queries)

TestCountWitness ==
    /\ pc = "call"
    /\ poisoned_group_strategy = "plugin"
    /\ num_tests = Len(queries)
    /\ num_tests >= 3

\* C6: every recursive scrutiny call is on a part [start, s) or [s, end) of its
\* caller's group with start < s < end, the batch start grows on every
\* iteration of the top-level loop, and a started solve() ends.
ShrinkingCalls ==
    \A k \in 1..(Len(stack) - 1) :
        (SplitBased(stack[k]) /\ SplitBased(stack[k + 1])) =>
            \E sp \in (stack[k].i_start + 1)..(stack[k].i_end - 1) :
                \/ /\ stack[k + 1].i_start = stack[k].i_start
                   /\ stack[k + 1].i_end = sp
                \/ /\ stack[k + 1].i_start = sp
                   /\ stack[k + 1].i_end = stack[k].i_end

BatchStartGrows == (pc \in {"top", "call"} /\ pc' = "top") => i_start' > i_start

SolveTerminates ==
    /\ []ShrinkingCalls
    /\ [][BatchStartGrows]_vars
    /\ (pc = "top") ~> Finished

SolveTerminatesWitness ==
    /\ pc = "done"
    /\ solverType = "DeepDive"
    /\ poisoned_group_split_strategy = "middle"
    /\ top_level_group_size < num_glasses
    /\ num_tests > num_glasses

\* C8: a split-based scrutiny of [start, end) with split point s first tests
\* [start, s); after a negative answer it tests neither [start, s) again nor
\* [s, end) as a group, so [s, end) is tested only after a positive left test.
LeftHalfFirst ==
    \A k \in 1..Len(stack) :
        LET f == stack[k]
        IN  (SplitBased(f) /\ f.i_end - f.i_start > 1 /\ Len(queries) > f.at) =>
                \A sp \in {split_strategy(f.i_start, f.i_end)} :
                    ~NotSplit(sp) =>
                        /\ Range(queries[f.at + 1]) = <<f.i_start, sp>>
                        /\ \A j \in (f.at + 2)..Len(queries) :
                               /\ Range(queries[j]) # <<f.i_start, sp>>
                               /\ Range(queries[j]) = <<sp, f.i_end>>
                                      => queries[f.at + 1][3]

LeftHalfFirstWitness ==
    /\ Len(stack) >= 2
    /\ poisoned_group_split_strategy = "middle"
    /\ stack[1].fn = "deep_dive"
    /\ stack[1].i_start = 0
    /\ stack[1].i_end = 4
    /\ queries[stack[1].at + 1] = <<0, 2, FALSE>>
    /\ stack[2].i_start = 2
    /\ stack[2].i_end = 4
    /\ Len(queries) = stack[1].at + 1

\* C7 as stated: in the scenario, a two-level solver with one batch of 8 and
\* round-robin scrutiny marks exactly the glasses 2 and 6 with 7 or 8 tests.
ScenarioRun(strategies) ==
    /\ Finished
    /\ solverType = "TwoLevel"
    /\ poisoned_group_strategy \in strategies
    /\ top_level_group_size = num_glasses
    /\ glasses = [i \in 0..(Len(ScenarioGlasses) - 1) |-> ScenarioGlasses[i + 1]]

ScenarioSevenOrEightTests ==
    ScenarioRun({"round_robin"})
        => (pc = "done" /\ Marked = {2, 6} /\ num_tests >= 7 /\ num_tests <= 8)

\* C7 amended: it marks exactly the glasses 2 and 6 with 9 tests, the batch test
\* and one test per glass, with round-robin and with round-robin-plus scrutiny.
ScenarioNineTests ==
    ScenarioRun({"round_robin", "round_robin_plus"})
        => (pc = "done" /\ Marked = {2, 6} /\ num_tests = Len(ScenarioGlasses) + 1)

ScenarioWitness ==
    /\ ScenarioRun({"round_robin"})
    /\ Marked = {2, 6}
    /\ num_tests = Len(ScenarioGlasses) + 1

\* C4: no experiment exists, and none is loaded into a solver, with a number of
\* glasses n <= 0 or a probability outside (0, 1).
ValidConfiguration ==
    /\ num_glasses > 0
    /\ RLess(RInt(0), poison_chance)
    /\ RLess(poison_chance, RInt(1))

InvalidConfigurationRejected ==
    (expState = "constructed" \/ loaded) => ValidConfiguration

\* C9: a size's statistics are the same whenever they are asked for, and the
\* recurrence is evaluated at most once per size.
StatisticsComputedOnce ==
    /\ \A n \in 1..MaxStatN : evaluations[n] <= 1
    /\ \A r1, r2 \in returned :
           (r1.op = r2.op /\ r1.n = r2.n) => r1.value = r2.value

StatisticsAskedTwiceWitness ==
    \E n \in 2..MaxStatN :
        /\ asked[n] >= 2
        /\ evaluations[n] = 1
        /\ \E r \in returned : r.op = "poisoned" /\ r.n = n

\* C10: the expected number of tests of the statistics handed out is 0 for
\* size 1 and does not decrease from a size to the next.
ExpectedTestsMonotone ==
    \A r1 \in returned :
        r1.op = "poisoned" =>
            /\ r1.n = 1 => r1.value.tests = RInt(0)
            /\ \A r2 \in returned :
                   (r2.op = "poisoned" /\ r2.n = r1.n + 1)
                       => RLeq(r1.value.tests, r2.value.tests)

ExpectedTestsWitness ==
    \E r1, r2, r3 \in returned :
        /\ r1.op = "poisoned" /\ r2.op = "poisoned" /\ r3.op = "poisoned"
        /\ r1.n = 1 /\ r2.n = 2 /\ r3.n = 3
        /\ r1.value.tests = RInt(0)
        /\ RLess(r2.value.tests, r3.value.tests)

\* Glass i lies in the range of oracle query q.
InRange(i, q) == q[1] <= i /\ i < q[2]

\* The tests made so far prove glass i poisoned: a positive test of a group
\* holding i (of i alone, for a singleton test) whose other glasses all lie in
\* groups that tested negative.
Proven(i) ==
    \E k \in 1..Len(queries) :
        /\ queries[k][3]
        /\ InRange(i, queries[k])
        /\ \A j \in (queries[k][1])..(queries[k][2] - 1) :
               j # i => \E m \in 1..Len(queries) :
                           ~queries[m][3] /\ InRange(j, queries[m])

TestedAlonePositive(i) == \E k \in 1..Len(queries) : queries[k] = <<i, i + 1, TRUE>>

\* C11: in every state of a run with a catalog strategy, a marked glass is
\* poisoned, and the tests made so far prove it: a positive singleton test, or a
\* positive group whose other glasses were all ruled out by negative tests.
MarkedOnlyWhenProven ==
    (loaded /\ Catalog) => \A i \in Marked : glasses[i] = 1 /\ Proven(i)

MarkedByExhaustionWitness ==
    /\ pc = "call"
    /\ Catalog
    /\ stack # <<>>
    /\ \E i \in Marked : ~TestedAlonePositive(i) /\ Proven(i)
    /\ Poisoned \ Marked # {}

EarlyStopRun == loaded /\ solverType = "EarlyStop"

\* Glass j lies in a group that tested negative.
RuledOut(j) == \E m \in 1..Len(queries) : ~queries[m][3] /\ InRange(j, queries[m])

\* Between batches and at the end of an early-stop run, every glass before the
\* next batch start is marked or ruled out, and no later glass is marked.
NoneSkipped ==
    (EarlyStopRun /\ pc \in {"top", "done", "raised"}) =>
        \A j \in DOMAIN solution :
            IF j < i_start THEN solution[j] = 1 \/ RuledOut(j) ELSE solution[j] = 0

\* The step of _solve_core that takes over the result of the scrutiny of the
\* positive batch [i_start, i_end).
FirstPoisonedReturned ==
    (EarlyStopRun /\ pc = "call" /\ stack = <<>> /\ pc' = "top") =>
        /\ ret \in i_start..(i_end - 1)
        /\ glasses[ret] = 1
        /\ \A j \in i_start..(ret - 1) : glasses[j] = 0 /\ RuledOut(j)
        /\ {j \in i_start..(i_end - 1) : solution[j] = 1} = {ret}
        /\ i_start' = ret + 1

\* C12: the early-stop scrutiny of a positive batch marks exactly one glass, the
\* lowest-indexed poisoned glass k of the batch, with every glass before k in
\* the batch ruled out by a negative test; the next batch starts at k + 1; and
\* no glass is passed by without being marked or ruled out by a negative test.
EarlyStopFirstPoisoned == []NoneSkipped /\ [][FirstPoisonedReturned]_vars

EarlyStopFirstPoisonedWitness ==
    /\ EarlyStopRun
    /\ pc = "call"
    /\ stack = <<>>
    /\ ret > i_start
    /\ ret + 1 < i_end
    /\ solution[ret] = 1
    /\ glasses[ret + 1] = 1
=============================================================================
